---------------------------- MODULE Spec2Model ----------------------------
(***************************************************************************)
(* trajViewer_rust: the frame-generation loop of traj_viewer::run          *)
(* (src/src/lib.rs) and the exit path of main (src/src/main.rs).           *)
(*                                                                         *)
(* One behaviour is one run of the program: Config::parse, load_csv, the   *)
(* set-up of run, the while loop that renders one window per iteration,    *)
(* and the process exit.                                                   *)
(***************************************************************************)
EXTENDS Integers, Sequences, FiniteSets, TLC

(***************************************************************************)
(* Bounds of the model.                                                    *)
(***************************************************************************)
\* largest number of rows of the dataset (df.height())
MaxN == 11
\* largest --frames value
MaxF == 11
\* largest --skip value
MaxSkip == 2
\* The sink's frame counter is tracked up to MaxFrames.  A loop that
\* advances (skip > 0) renders at most MaxN frames, so only a loop that
\* does not advance can reach it.
MaxFrames == MaxN + 2

(***************************************************************************)
(* f64.  yaw and delta are IEEE-754 doubles.  A double d is modelled by    *)
(* its sign and its magnitude |d| * 2^61, an integer for every value the   *)
(* loop can produce (2^-61 is the unit in the last place of 0.002), held   *)
(* in three limbs of 21 bits, most significant first.                      *)
(***************************************************************************)
Limb == 2^21

MagLt(a, b) ==
    \/ a[1] < b[1]
    \/ a[1] = b[1] /\ a[2] < b[2]
    \/ a[1] = b[1] /\ a[2] = b[2] /\ a[3] < b[3]

MagAdd(a, b) ==
    LET s3 == a[3] + b[3]
        s2 == a[2] + b[2] + (s3 \div Limb)
        s1 == a[1] + b[1] + (s2 \div Limb)
    IN  <<s1, s2 % Limb, s3 % Limb>>

\* a - b for a >= b
MagSub(a, b) ==
    LET d3 == a[3] - b[3]
        c3 == IF d3 < 0 THEN 1 ELSE 0
        d2 == a[2] - b[2] - c3
        c2 == IF d2 < 0 THEN 1 ELSE 0
    IN  <<a[1] - b[1] - c2, d2 + c2 * Limb, d3 + c3 * Limb>>

\* The unit in the last place of a magnitude, in units of 2^-61: the least
\* power of two p with m < p * 2^53 (a 53-bit significand).
RECURSIVE UlpFrom(_, _)
UlpFrom(m, p) == IF m[1] < p * 2048 THEN p ELSE UlpFrom(m, 2 * p)

Ulp(m) == UlpFrom(m, 1)

\* Round to nearest, ties to even: the rounding of every f64 operation.
RoundMag(m) ==
    LET p    == Ulp(m)
        r    == m[3] % p
        down == <<m[1], m[2], m[3] - r>>
        odd  == ((m[3] - r) \div p) % 2 = 1
    IN  IF 2 * r > p \/ (2 * r = p /\ odd)
        THEN MagAdd(down, <<0, 0, p>>)
        ELSE down

MagZero == <<0, 0, 0>>

F64Add(a, b) ==
    IF a.neg = b.neg
    THEN [neg |-> a.neg, m |-> RoundMag(MagAdd(a.m, b.m))]
    ELSE IF MagLt(a.m, b.m)
         THEN [neg |-> b.neg, m |-> RoundMag(MagSub(b.m, a.m))]
         ELSE IF a.m = b.m
              THEN [neg |-> FALSE, m |-> MagZero]
              ELSE [neg |-> a.neg, m |-> RoundMag(MagSub(a.m, b.m))]

F64Lt(a, b) ==
    IF a.neg /\ ~b.neg THEN ~(a.m = MagZero /\ b.m = MagZero)
    ELSE IF ~a.neg /\ b.neg THEN FALSE
    ELSE IF a.neg THEN MagLt(b.m, a.m)
    ELSE MagLt(a.m, b.m)

F64Gt(a, b) == F64Lt(b, a)

F64Neg(a) == [neg |-> ~a.neg, m |-> a.m]

\* The literals of run, as the doubles rustc makes of them.
Lit_0_0   == [neg |-> FALSE, m |-> MagZero]
Lit_0_002 == [neg |-> FALSE, m |-> <<1048, 1207959, 1157628>>]
Lit_0_52  == [neg |-> FALSE, m |-> <<272629, 1593835, 1090560>>]
Lit_1_05  == [neg |-> FALSE, m |-> <<550502, 838860, 1677824>>]

(***************************************************************************)
(* The pure parts of run.                                                  *)
(***************************************************************************)
\* EndFrame with the comparison against the table height dropped.
EndFrame_NoHeightCheck(f, n) == IF f > 0 THEN f ELSE n

\* let end_frame = if config.frames > 0 && config.frames < df.height() ...
EndFrame(f, n) == IF f > 0 /\ f < n THEN f ELSE n

\* LoopCond with <= for <.
LoopCond_Le(fr, sk, ef) == fr + 4 * sk <= ef

\* LoopCond with the window width dropped.
LoopCond_NoWidth(fr, sk, ef) == fr < ef

\* while frame + 4 * config.skip < end_frame
LoopCond(fr, sk, ef) == fr + 4 * sk < ef

\* WindowEnd with a width of 3 * skip.
WindowEnd_3(fr, sk) == fr + 3 * sk

\* frame..frame + 4 * config.skip
WindowEnd(fr, sk) == fr + 4 * sk

\* NextFrame advancing by one row instead of skip.
NextFrame_Unit(fr, sk) == fr + 1

\* frame += config.skip
NextFrame(fr, sk) == fr + sk

\* s![frame..frame + 4 * skip, 0..3] and df_array[[frame, 3]] of an n-row
\* array: ndarray panics on a range or an index outside it.
SliceInBounds(fr, hi, n) == fr <= hi /\ hi <= n /\ fr < n

\* Wall with its two branches exchanged.
Wall_Swapped(y) == IF F64Gt(y, Lit_0_0) THEN 25 ELSE -1

\* let wall: f64 = if yaw > 0.0 { -1.0 } else { 25.0 };
Wall(y) == IF F64Gt(y, Lit_0_0) THEN -1 ELSE 25

\* NextDelta without the reversal at the lower threshold.
NextDelta_NoLower(y, d) ==
    IF F64Gt(y, Lit_1_05) THEN F64Neg(Lit_0_002) ELSE d

\* NextDelta with the upper threshold in the first arm.
NextDelta_WrongArm(y, d) ==
    IF F64Lt(y, Lit_1_05) THEN Lit_0_002
    ELSE IF F64Gt(y, Lit_1_05) THEN F64Neg(Lit_0_002)
    ELSE d

\* delta = match yaw { t if t < 0.52 => 0.002, t if t > 1.05 => -0.002,
\*                     _ => delta };
NextDelta(y, d) ==
    IF F64Lt(y, Lit_0_52) THEN Lit_0_002
    ELSE IF F64Gt(y, Lit_1_05) THEN F64Neg(Lit_0_002)
    ELSE d

\* yaw += delta
NextYaw(y, d) == F64Add(y, d)

\* process::exit(1) after "Application error"; a panic ends the process
\* with Rust's panic status; falling off main is status 0.
ExitOk    == 0
ExitErr   == 1
ExitPanic == 101

(***************************************************************************)
(* State.                                                                  *)
(***************************************************************************)
VARIABLES
    pc,         \* "load", "setup", "loop", "exit"
    frames,     \* config.frames
    skip,       \* config.skip
    N,          \* rows of the dataset <filekey>; df.height() once loaded
    end_frame,
    frame,
    yaw,
    delta,
    wall,       \* <<w>>: the wall of the last iteration; <<>> before it
    proj_yz,    \* first components of the points pushed to proj_yz
    win,        \* <<lo, hi>>: the rows of the last slice; <<>> before it
    nframes,    \* frames presented to the GIF
    failure,    \* what ended the run: "none" or the failing step
    exit_code   \* the process status; -1 while running

vars == <<pc, frames, skip, N, end_frame, frame, yaw, delta, wall, proj_yz,
          win, nframes, failure, exit_code>>

Init ==
    /\ pc = "load"
    /\ frames \in 0..MaxF
    /\ skip \in 0..MaxSkip
    /\ N \in 0..MaxN
    /\ end_frame = 0
    /\ frame = 0
    /\ yaw = Lit_1_05
    /\ delta = F64Neg(Lit_0_002)
    /\ wall = <<>>
    /\ proj_yz = <<>>
    /\ win = <<>>
    /\ nframes = 0
    /\ failure = "none"
    /\ exit_code = -1

\* The locals of the loop body.
body == <<frame, yaw, delta, wall, proj_yz, win, nframes>>

\* The process ends with status `code` because of `why`.
Exit(code, why) ==
    /\ pc' = "exit"
    /\ exit_code' = code
    /\ failure' = why

(***************************************************************************)
(* load_csv                                                                *)
(***************************************************************************)
\* df_path.exists(): the local file is read and the four columns selected.
ReadLocal ==
    /\ pc = "load"
    /\ pc' = "setup"
    /\ UNCHANGED <<frames, skip, N, end_frame, body, failure, exit_code>>

\* CsvReader::from_path(..)?, .finish()? or .collect()? returns Err: run
\* returns it and main exits with 1.
ReadLocalErr ==
    /\ pc = "load"
    /\ Exit(ExitErr, "csv")
    /\ UNCHANGED <<frames, skip, N, end_frame, body>>

\* No local file: download_stat fetches and parses the S3 object.
DownloadStat ==
    /\ pc = "load"
    /\ pc' = "setup"
    /\ UNCHANGED <<frames, skip, N, end_frame, body, failure, exit_code>>

\* send().await.unwrap(), collect().await.unwrap() or finish().unwrap()
\* meets an Err: the unwrap panics.
DownloadStatPanic ==
    /\ pc = "load"
    /\ Exit(ExitPanic, "s3")
    /\ UNCHANGED <<frames, skip, N, end_frame, body>>

(***************************************************************************)
(* run, up to the loop                                                     *)
(***************************************************************************)
Setup ==
    /\ pc = "setup"
    /\ end_frame' = EndFrame(frames, N)
    /\ delta' = F64Neg(Lit_0_002)
    /\ yaw' = Lit_1_05
    /\ frame' = 0
    /\ pc' = "loop"
    /\ UNCHANGED <<frames, skip, N, wall, proj_yz, win, nframes, failure,
                   exit_code>>

\* BitMapBackend::gif(..)? or df.to_ndarray()? returns Err.
SetupErr ==
    /\ pc = "setup"
    /\ end_frame' = EndFrame(frames, N)
    /\ Exit(ExitErr, "backend")
    /\ UNCHANGED <<frames, skip, N, body>>

(***************************************************************************)
(* One iteration of the while loop.                                        *)
(***************************************************************************)
\* The iteration up to the point where step `stop` fails, or all of it
\* ("none").  The slice and the wall come first, then the drawing that can
\* return Err ("render1"), the camera update, more drawing ("render2"),
\* area.present().expect(..) ("present"), and frame += skip.
Iteration(stop) ==
    LET hi == WindowEnd(frame, skip)
        d  == NextDelta(yaw, delta)
    IN  /\ pc = "loop"
        /\ LoopCond(frame, skip, end_frame)
        /\ IF ~SliceInBounds(frame, hi, N)
           THEN /\ Exit(ExitPanic, "slice")
                /\ UNCHANGED body
           ELSE /\ win' = <<frame, hi>>
                /\ wall' = <<Wall(yaw)>>
                /\ proj_yz' = [i \in 1..(hi - frame) |-> Wall(yaw)]
                /\ IF stop = "render1"
                   THEN UNCHANGED <<yaw, delta>>
                   ELSE delta' = d /\ yaw' = NextYaw(yaw, d)
                /\ IF stop = "none"
                   THEN /\ nframes' = IF nframes < MaxFrames
                                      THEN nframes + 1 ELSE nframes
                        /\ frame' = NextFrame(frame, skip)
                        /\ UNCHANGED <<pc, failure, exit_code>>
                   ELSE /\ Exit(IF stop = "present" THEN ExitPanic ELSE ExitErr,
                                stop)
                        /\ UNCHANGED <<frame, nframes>>
        /\ UNCHANGED <<frames, skip, N, end_frame>>

Frame == Iteration("none")

\* area.fill, area.draw or build_cartesian_3d returns Err (lines 128-139)
RenderErrBeforeCamera == Iteration("render1")

\* configure_axes, draw_series or configure_series_labels returns Err
RenderErrAfterCamera == Iteration("render2")

\* area.present() returns Err and .expect panics
PresentPanic == Iteration("present")

\* The loop condition is false: run returns Ok(()) and main returns.
Finish ==
    /\ pc = "loop"
    /\ ~LoopCond(frame, skip, end_frame)
    /\ Exit(ExitOk, "none")
    /\ UNCHANGED <<frames, skip, N, end_frame, body>>

Next ==
    \/ ReadLocal
    \/ ReadLocalErr
    \/ DownloadStat
    \/ DownloadStatPanic
    \/ Setup
    \/ SetupErr
    \/ Frame
    \/ RenderErrBeforeCamera
    \/ RenderErrAfterCamera
    \/ PresentPanic
    \/ Finish

Spec == Init /\ [][Next]_vars

\* The program is one sequential thread: whenever a step is possible, one
\* is taken.  The runs followed to their end are those of the empty and of
\* the largest dataset, without and with the largest frame cap.
FairInit == Init /\ N \in {0, MaxN} /\ frames \in {0, MaxF}

FairSpec == FairInit /\ [][Next]_vars /\ WF_vars(Next)


(***************************************************************************)
(* Properties.                                                             *)
(***************************************************************************)
Min(a, b) == IF a <= b THEN a ELSE b

\* The effective end-frame as section 4.2 states it, from the inputs.
StatedEnd == IF frames > 0 THEN Min(frames, N) ELSE N

\* end_frame has been computed.
EndFrameSet == pc = "loop" \/ (pc = "exit" /\ failure \notin {"csv", "s3"})

\* The loop has been entered.
LoopEntered ==
    pc = "loop" \/ (pc = "exit" /\ failure \notin {"csv", "s3", "backend"})

\* The loop ran until its condition was false and run returned Ok.
LoopDone == pc = "exit" /\ failure = "none"

\* An iteration was cut short by a failure after its slice was taken.
CutShort == failure \in {"render1", "render2", "present"}

\* C3: the effective end-frame is min(F, N) when F > 0 and N when F = 0; it
\* never exceeds N, and a cap F >= N has the effect of no cap.
C3_EffectiveEnd ==
    EndFrameSet =>
        /\ end_frame = StatedEnd
        /\ end_frame <= N
        /\ (frames >= N => end_frame = N)

C3_Witness == pc = "loop" /\ frames > 0 /\ frames < N /\ end_frame = frames

\* C1 as stated: for skip > 0 the number of frames produced is
\* floor((E - 4*skip) / skip) + 1 when that is at least 1, else 0, with
\* E = min(F, N) if F > 0 else N.
C1_StatedCount ==
    (LoopDone /\ skip > 0) =>
        LET v == ((StatedEnd - 4 * skip) \div skip) + 1
        IN  nframes = IF v >= 1 THEN v ELSE 0

\* C1 amended: for skip > 0 the number of frames produced is
\* floor((E - 4*skip - 1) / skip) + 1 when E > 4*skip, else 0.
C1_WindowCount ==
    (LoopDone /\ skip > 0) =>
        nframes = IF StatedEnd > 4 * skip
                  THEN ((StatedEnd - 4 * skip - 1) \div skip) + 1
                  ELSE 0

C1_Witness == LoopDone /\ skip = 2 /\ StatedEnd = 10 /\ nframes = 1

\* C2: for skip > 0 the k-th iteration (k = 0, 1, ...) slices exactly the
\* window [k*skip, k*skip + 4*skip), each with its end below end_frame, in
\* this order, and the loop ends only when the next window would not be
\* below end_frame.
C2_Windows ==
    (skip > 0 /\ LoopEntered /\ failure # "slice") =>
        /\ frame = nframes * skip
        /\ win # <<>> =>
              LET k == IF CutShort THEN nframes ELSE nframes - 1
              IN  /\ k >= 0
                  /\ win = <<k * skip, k * skip + 4 * skip>>
                  /\ win[2] < end_frame
        /\ (win = <<>>) = (nframes = 0 /\ ~CutShort)
        /\ LoopDone => frame + 4 * skip >= end_frame

C2_Witness == pc = "loop" /\ skip = 2 /\ nframes = 2 /\ win = <<2, 10>>

\* C10: the rows frame .. frame + 4*skip sliced from the table and the row
\* frame read for t0 lie inside the table in every iteration: no slice or
\* index panics.
C10_InBounds ==
    /\ failure # "slice"
    /\ win # <<>> => win[1] <= win[2] /\ win[2] <= N /\ win[1] < N

C10_Witness == win # <<>> /\ win[1] > 0 /\ win[2] = N - 1 /\ nframes >= 2

\* C5: when 4*skip >= end_frame the loop appends no frame, reads no row and
\* the process exits with 0.
C5_ZeroFrames ==
    (pc = "exit" /\ LoopEntered /\ 4 * skip >= end_frame) =>
        /\ exit_code = ExitOk
        /\ failure = "none"
        /\ nframes = 0
        /\ win = <<>>

C5_Witness ==
    pc = "exit" /\ exit_code = ExitOk /\ skip > 0 /\ 4 * skip = end_frame
    /\ nframes = 0

\* The doubles of 0.518 = 0.52 - 0.002 and 1.052 = 1.05 + 0.002.
Lit_0_518 == [neg |-> FALSE, m |-> <<271581, 385875, 2030080>>]
Lit_1_052 == [neg |-> FALSE, m |-> <<551550, 2046820, 738304>>]

Up   == Lit_0_002
Down == F64Neg(Lit_0_002)

\* C6: from yaw = 1.05 and delta = -0.002 the yaw of every frame stays in
\* [0.518, 1.052], for any number of frames.
C6_YawBounded == ~F64Lt(yaw, Lit_0_518) /\ ~F64Gt(yaw, Lit_1_052)

\* The upper end is attained: the frame after yaw passes 1.05 going up.
C6_Witness == yaw = Lit_1_052 /\ delta = Up /\ win # <<>>

\* C7: in every frame the first component of every Projection-YZ point is
\* -1 when the yaw of the frame is > 0 and 25 when it is <= 0.
C7_WallBySign ==
    LET w == IF F64Gt(yaw, Lit_0_0) THEN -1 ELSE 25
    IN  /\ wall # <<>> => wall = <<w>>
        /\ \A i \in 1..Len(proj_yz) : proj_yz[i] = w

C7_Witness == Len(proj_yz) = 4 * skip /\ skip > 0 /\ proj_yz[1] = -1

\* C8 as stated: the process exits with 0 when the run succeeds and with 1
\* on every failure of loading, rendering or output.
C8_ExitCodes ==
    pc = "exit" =>
        \/ failure = "none" /\ exit_code = ExitOk
        \/ failure # "none" /\ exit_code = ExitErr

\* C4 as stated: for every N, F and skip, skip = 0 included, the loop ends
\* after finitely many frames and the process exits.
C4_Terminates == <>(pc = "exit")

\* C9: delta is always +0.002 or -0.002; it changes only in a frame whose
\* yaw before the update is outside [0.52, 1.05], to +0.002 below 0.52 and
\* to -0.002 above 1.05; yaw moves in the direction of delta in every
\* frame; and every drift is followed by a reversal unless the run ends.
C9_Oscillates ==
    /\ [](delta \in {Up, Down})
    /\ [][/\ delta' # delta =>
               IF delta' = Up THEN F64Lt(yaw, Lit_0_52)
                              ELSE F64Gt(yaw, Lit_1_05)
          /\ yaw' # yaw =>
               IF delta' = Up THEN F64Gt(yaw', yaw) ELSE F64Lt(yaw', yaw)
         ]_vars
    /\ (pc = "loop" /\ delta = Down) ~> (delta = Up \/ pc = "exit")
    /\ (pc = "loop" /\ delta = Up) ~> (delta = Down \/ pc = "exit")

\* A second descent: yaw is back at 1.05 going down after more frames than
\* one descent and one ascent take.
C9_Witness ==
    pc = "loop" /\ delta = Down /\ yaw = Lit_1_05 /\ nframes = MaxFrames
=============================================================================
